---- MODULE Spec2Model ----
(***************************************************************************)
(* State-machine model of src/style.js: the map based location picker, the *)
(* readiness gate of the route section and the route / cost estimator.     *)
(*                                                                         *)
(* Numbers.  JavaScript doubles are modelled by fixed-point integers:      *)
(*   - a raw coordinate (L.LatLng) is an integer number of 1e-7 degrees;   *)
(*   - a stored coordinate (the text written by toFixed(6)) is an integer  *)
(*     number of 1e-6 degrees;                                             *)
(*   - a distance is an integer number of metres, a duration an integer    *)
(*     number of minutes, a cost an integer number of UGX.                 *)
(* Leaflet calls are modelled at the level of their documented API: a map  *)
(* holds a set of layers, addTo adds one, removeLayer removes one.  The    *)
(* view of a map (setView, fitBounds, zoom) and popups are not state of    *)
(* any property studied here and are left out.                             *)
(***************************************************************************)
EXTENDS Integers, Sequences, FiniteSets, TLC

(***************************************************************************)
(* Bounds of the model.                                                    *)
(***************************************************************************)
\* how many calculateRoute invocations pass the precondition checks
MaxRequests == 2
\* how many times the two map-section toggles are clicked in total
MaxToggles == 2

(***************************************************************************)
(* Program constants.                                                      *)
(***************************************************************************)
BASE_FEE == 3000
RATE_MOTORCYCLE == 1500
RATE_CAR == 4000

\* L.latLngBounds([-1.5, 29.5], [4.9, 35.1]) in units of 1e-7 degrees
UGANDA_BOUNDS ==
  [south |-> -15000000, west |-> 295000000, north |-> 49000000, east |-> 351000000]

\* the default centre [0.3476, 32.5825] (Kampala) in units of 1e-7 degrees
defaultCenter == [lat |-> 3476000, lng |-> 325825000]

Roles == {"pickup", "delivery"}

(***************************************************************************)
(* Inputs: the points a click, a drag, a search or the device can deliver. *)
(***************************************************************************)
\* (0.3500004, 32.5999996): inside; toFixed(6) rounds it to (0.350000, 32.600000)
PointB == [lat |-> 3500004, lng |-> 325999996]
\* (5.0, 32.0): north of the region
PointNorth == [lat |-> 50000000, lng |-> 320000000]
\* (1.0, 35.1000004): just east of the region; toFixed(6) would give 35.100000
PointEast == [lat |-> 10000000, lng |-> 351000004]

\* (4.8999996, 29.5): inside, next to the north-west corner; toFixed(6) rounds
\* it onto the corner (4.900000, 29.500000)
PointEdge == [lat |-> 48999996, lng |-> 295000000]

Points == {PointB, PointEdge, PointNorth, PointEast}

(***************************************************************************)
(* Fixed-point arithmetic.                                                 *)
(***************************************************************************)
Abs(x) == IF x < 0 THEN -x ELSE x

Sign(x) == IF x < 0 THEN -1 ELSE 1

\* <<quotient, remainder>> of a*b by d for a, b >= 0 and 0 < d < 6 * 10^7,
\* computed by long multiplication in base 16 so that no intermediate value
\* leaves 32 bits
RECURSIVE MulDivQR(_, _, _)
MulDivQR(a, b, d) ==
  IF b = 0 THEN <<0, 0>>
  ELSE LET h == MulDivQR(a, b \div 16, d)
           t == 16 * h[2] + (b % 16) * (a % d)
       IN  <<16 * h[1] + (b % 16) * (a \div d) + (t \div d), t % d>>

\* floor(a*b/d), signs handled as for real multiplication (truncation to 0)
MulDiv(a, b, d) == Sign(a) * Sign(b) * MulDivQR(Abs(a), Abs(b), d)[1]

\* Math.round(a*b/d) for a, b >= 0: nearest integer, a tie goes up
RoundMulDiv(a, b, d) ==
  LET qr == MulDivQR(a, b, d)
  IN  qr[1] + (IF 2 * qr[2] >= d THEN 1 ELSE 0)

\* Math.round(n/d) for n >= 0
RoundDiv(n, d) == (2 * n + d) \div (2 * d)

\* floor(sqrt(n * k)) by Newton's iteration from above, y an upper estimate
RECURSIVE SqrtIter(_, _, _)
SqrtIter(n, k, y) ==
  IF n = 0 THEN 0
  ELSE LET z == (y + MulDivQR(n, k, y)[1]) \div 2
       IN  IF z >= y THEN y ELSE SqrtIter(n, k, z)

(***************************************************************************)
(* Number.prototype.toFixed(6) and parseFloat on coordinates.              *)
(***************************************************************************)
\* raw coordinate (1e-7 degrees) -> stored text (1e-6 degrees), rounded to the
\* nearest, a tie away from zero
toFixed6(x) == Sign(x) * ((Abs(x) + 5) \div 10)

\* stored text (1e-6 degrees) -> number (1e-7 degrees)
parseFloat(s) == s * 10

\* the box without its northern edge
ContainsNoNorth(lat, lng) ==
  /\ UGANDA_BOUNDS.south <= lat
  /\ UGANDA_BOUNDS.west <= lng /\ lng <= UGANDA_BOUNDS.east

\* the open box: the four edges left out
ContainsOpen(lat, lng) ==
  /\ UGANDA_BOUNDS.south < lat /\ lat < UGANDA_BOUNDS.north
  /\ UGANDA_BOUNDS.west < lng /\ lng < UGANDA_BOUNDS.east

\* UGANDA_BOUNDS.contains(latlng): the closed box
Contains(lat, lng) ==
  /\ lat >= UGANDA_BOUNDS.south
  /\ lat <= UGANDA_BOUNDS.north
  /\ lng >= UGANDA_BOUNDS.west
  /\ lng <= UGANDA_BOUNDS.east

(***************************************************************************)
(* calculateDistance: the haversine formula.  Angles, sines and cosines    *)
(* are fixed-point numbers of scale 10^7; the haversine term a, which is   *)
(* of the order of 1e-8 for points two kilometres apart, has scale 10^11.  *)
(* The series are those of Math.sin, Math.cos and Math.atan2 truncated     *)
(* where the next term is below the resolution for every pair of points of *)
(* the region (angles up to 0.12 rad); the result is in metres.            *)
(***************************************************************************)
Scale == 10 ^ 7

\* Earth's radius in km
R == 6371

\* x * Math.PI / 180 for x in 1e-7 degrees; the result has scale 10^7
ToRadians(x) == MulDiv(x, 174533, Scale)

\* Math.sin(x) = x - x^3/6 + x^5/120
Sin(x) ==
  LET x2 == MulDiv(x, x, Scale)
      x3 == MulDiv(x2, x, Scale)
      x5 == MulDiv(x3, x2, Scale)
  IN  x - MulDiv(x3, 1, 6) + MulDiv(x5, 1, 120)

\* Math.cos(x) = 1 - x^2/2 + x^4/24
Cos(x) ==
  LET x2 == MulDiv(x, x, Scale)
      x4 == MulDiv(x2, x2, Scale)
  IN  Scale - MulDiv(x2, 1, 2) + MulDiv(x4, 1, 24)

\* Math.atan2(y, x) for y >= 0 and x > 0: atan(t) = t - t^3/3 + t^5/5, t = y/x
Atan2(y, x) ==
  LET t  == MulDiv(y, Scale, x)
      t2 == MulDiv(t, t, Scale)
      t3 == MulDiv(t2, t, Scale)
      t5 == MulDiv(t3, t2, Scale)
  IN  t - MulDiv(t3, 1, 3) + MulDiv(t5, 1, 5)

\* the term a with the cosine of the first latitude taken twice
HaversineAFirstLat(lat1, lon1, lat2, lon2) ==
  LET dLat == ToRadians(lat2 - lat1)
      dLon == ToRadians(lon2 - lon1)
      sLat == Sin(MulDiv(dLat, 1, 2))
      sLon == Sin(MulDiv(dLon, 1, 2))
      cc   == MulDiv(Cos(ToRadians(lat1)), Cos(ToRadians(lat1)), Scale)
  IN  MulDiv(sLat, sLat, 1000) + MulDiv(MulDiv(cc, sLon, Scale), sLon, 1000)

\* the term a of the formula, scale 10^11
HaversineA(lat1, lon1, lat2, lon2) ==
  LET dLat == ToRadians(lat2 - lat1)
      dLon == ToRadians(lon2 - lon1)
      sLat == Sin(MulDiv(dLat, 1, 2))
      sLon == Sin(MulDiv(dLon, 1, 2))
      cc   == MulDiv(Cos(ToRadians(lat1)), Cos(ToRadians(lat2)), Scale)
  IN  MulDiv(sLat, sLat, 1000) + MulDiv(MulDiv(cc, sLon, Scale), sLon, 1000)

\* calculateDistance(lat1, lon1, lat2, lon2) in metres, arguments in 1e-7 degrees
calculateDistance(lat1, lon1, lat2, lon2) ==
  LET a      == HaversineA(lat1, lon1, lat2, lon2)
      sqrtA  == SqrtIter(a, 1000, 2 * 10 ^ 6)
      sqrt1A == SqrtIter(Scale - a \div 10 ^ 4, Scale, Scale)
      c      == 2 * Atan2(sqrtA, sqrt1A)
  IN  MulDiv(c, R * 1000, Scale)

(***************************************************************************)
(* Values of form fields and of text nodes.                                *)
(***************************************************************************)
\* the empty string
Empty == [k |-> "empty", lat |-> 0, lng |-> 0]

\* the text 'Not set'
NotSet == [k |-> "notset", lat |-> 0, lng |-> 0]

\* the text `${lat}, ${lng}` of two toFixed(6) texts
CoordsText(lat, lng) == [k |-> "coords", lat |-> lat, lng |-> lng]

\* the OpenStreetMap link built from two toFixed(6) texts
mapLink(lat, lng) == [k |-> "link", lat |-> lat, lng |-> lng]

\* a single toFixed(6) text
NumText(v) == [k |-> "num", lat |-> v, lng |-> 0]

\* an L.LatLng held by a marker; undefined before initMaps created the marker
LatLng(lat, lng) == [def |-> TRUE, lat |-> lat, lng |-> lng]

Undefined == [def |-> FALSE, lat |-> 0, lng |-> 0]

\* hidden.split(',').map(s => parseFloat(s.trim())) on a coordinates text
ParseCoords(text) == <<parseFloat(text.lat), parseFloat(text.lng)>>

\* `value && value !== 'Not set'`: the field holds a coordinates text
IsSet(text) == text.k # "empty" /\ text.k # "notset"

(***************************************************************************)
(* Notifications (showNotification): the text of the latest toast.  The    *)
(* long dash of three of the texts is written as a hyphen.                 *)
(***************************************************************************)
MsgNone == "(none)"
MsgClickOutside == "Location outside Uganda - pick a point inside Uganda."
MsgDragOutside == "Marker outside Uganda - resetting to last valid position."
MsgSearchOutside == "Search result is outside Uganda - please pick a location inside Uganda."
MsgGeoOutside == "Your current location is outside Uganda. Please set a location inside Uganda."
MsgGeoFound == "Location found successfully!"
MsgGeoUnsupported == "Geolocation is not supported by your browser"
MsgGeoError(code) == "Unable to get your current location. " \o code
MsgNeedLocations == "Please set both pickup and delivery locations inside Uganda first"
MsgNeedVehicle == "Please select a vehicle type first"
MsgRouteOk == "Route calculated successfully!"
MsgRouteFallback == "Estimated route shown (straight-line fallback)"
MsgRouteCleared == "Route cleared"

\* error.code of a GeolocationPositionError, by the text the handler appends
GeoErrorCodes ==
  { "Please allow location access in your browser settings.",
    "Location information is unavailable.",
    "Location request timed out.",
    "An unknown error occurred." }

(***************************************************************************)
(* State.                                                                  *)
(***************************************************************************)
VARIABLES
  contentDisplay,  \* style.display of pickupMapContent / deliveryMapContent
  initTimer,       \* a setTimeout(initMaps) of the role's toggle is pending
  toggles,         \* clicks on the two toggles so far
  mapInit,         \* pickupMap / deliveryMap hold a Leaflet map
  marker,          \* pickupMarker / deliveryMarker: position, or undefined
  mapLayers,       \* the route overlays on pickupMap / deliveryMap
  latValue,        \* pickupLat / deliveryLat
  lngValue,        \* pickupLng / deliveryLng
  link,            \* pickupLink / deliveryLink
  linkHidden,      \* pickupLinkHidden / deliveryLinkHidden
  coordsHidden,    \* pickupCoordsHidden / deliveryCoordsHidden
  lookups,         \* reverse lookups in flight: [type, lat, lng]
  routeSection,    \* style.display of routeSection
  vehicleType,     \* value of the vehicleType select
  routeLayer,      \* the global routeLayer
  routeDistance,   \* text of routeDistance
  routeDuration,   \* text of routeDuration
  routeCost,       \* text of routeCost
  requests,        \* calculateRoute invocations suspended at an await
  issued,          \* calculateRoute invocations that passed the preconditions
  applied,         \* the invocation whose result was written last, and how
  locateBtn,       \* getCurrentLocationPickup / ...Delivery: idle or locating
  geoPending,      \* a getCurrentPosition callback is outstanding
  notification,    \* text of the latest notification
  address,         \* value of pickupAddress / deliveryAddress
  resolved,        \* the lookup that resolved last, and what it resolved to
  formDisplay,     \* style.display of deliveryForm
  successDisplay,  \* style.display of successMessage
  submitBtn,       \* submitBtn: enabled, or disabled showing its loader
  currentFormData, \* the global currentFormData
  postPending,     \* the POST of the submit handler is in flight
  whatsapp         \* the message of the window opened last by whatsappBtn

mapVars == <<contentDisplay, initTimer, toggles, mapInit>>

storeVars == <<latValue, lngValue, link, linkHidden, coordsHidden>>

routeVars ==
  <<mapLayers, routeLayer, routeDistance, routeDuration, routeCost, requests,
    issued, applied>>

geoVars == <<locateBtn, geoPending>>

addressVars == <<address, resolved>>

formVars ==
  <<formDisplay, successDisplay, submitBtn, currentFormData, postPending, whatsapp>>

vars ==
  <<contentDisplay, initTimer, toggles, mapInit, marker, mapLayers, latValue,
    lngValue, link, linkHidden, coordsHidden, lookups, routeSection,
    vehicleType, routeLayer, routeDistance, routeDuration, routeCost, requests,
    issued, applied, locateBtn, geoPending, notification, address, resolved,
    formDisplay, successDisplay, submitBtn, currentFormData, postPending,
    whatsapp>>

\* routeLayer = null
NullLayer == [id |-> 0, kind |-> "null"]

\* the text '--'
Blank == [k |-> "blank", v |-> 0]

\* the text of a number followed by its unit
Text(v) == [k |-> "num", v |-> v]

\* the text 'NaN' followed by a unit
NaNText == [k |-> "nan", v |-> 0]

\* no invocation of calculateRoute has written a result yet
NoneApplied ==
  [id |-> 0, source |-> "none", pickupCoords |-> Empty, deliveryCoords |-> Empty,
   vehicleType |-> "", shape |-> "", distance |-> 0, duration |-> 0]

\* the empty string, as a sequence of characters
NoChars == << >>

\* no reverse lookup has resolved yet
NoneResolved ==
  [type |-> "", lat |-> 0, lng |-> 0, display_name |-> NoChars, country |-> NoChars]

\* currentFormData = null
NullData == [set |-> FALSE]

\* whatsappBtn has opened no window
NoWindow == [open |-> FALSE]

\* the page as loaded: both map sections collapsed, no map created (the maps
\* are created when a section is toggled open, line 898), every field empty
Init ==
  /\ contentDisplay = [r \in Roles |-> "none"]
  /\ initTimer = [r \in Roles |-> FALSE]
  /\ toggles = 0
  /\ mapInit = [r \in Roles |-> FALSE]
  /\ marker = [r \in Roles |-> Undefined]
  /\ mapLayers = [r \in Roles |-> {}]
  /\ latValue = [r \in Roles |-> Empty]
  /\ lngValue = [r \in Roles |-> Empty]
  /\ link = [r \in Roles |-> Empty]
  /\ linkHidden = [r \in Roles |-> Empty]
  /\ coordsHidden = [r \in Roles |-> Empty]
  /\ lookups = {}
  /\ routeSection = "none"
  /\ vehicleType = ""
  /\ routeLayer = NullLayer
  /\ routeDistance = Blank
  /\ routeDuration = Blank
  /\ routeCost = Blank
  /\ requests = {}
  /\ issued = 0
  /\ applied = NoneApplied
  /\ locateBtn = [r \in Roles |-> "idle"]
  /\ geoPending = [r \in Roles |-> FALSE]
  /\ notification = MsgNone
  /\ address = [r \in Roles |-> NoChars]
  /\ resolved = NoneResolved
  /\ formDisplay = "block"
  /\ successDisplay = "none"
  /\ submitBtn = "enabled"
  /\ currentFormData = NullData
  /\ postPending = FALSE
  /\ whatsapp = NoWindow

\* a readiness check that looks at the pickup field only
checkPickupOnly(coords) ==
  IF IsSet(coords["pickup"]) THEN "block" ELSE "none"

(***************************************************************************)
(* checkRouteAvailability: the display of the route section computed from  *)
(* the two hidden coordinate fields.                                       *)
(***************************************************************************)
checkRouteAvailability(coords) ==
  LET pickupCoords   == coords["pickup"]
      deliveryCoords == coords["delivery"]
      p == ParseCoords(pickupCoords)
      d == ParseCoords(deliveryCoords)
  IN  IF /\ IsSet(pickupCoords)
         /\ IsSet(deliveryCoords)
         /\ Contains(p[1], p[2])
         /\ Contains(d[1], d[2])
      THEN "block"
      ELSE "none"

(***************************************************************************)
(* initMaps and the two toggles.                                           *)
(***************************************************************************)
\* the maps after the block of one role ran: created if the container is shown
InitOne(inited, type) ==
  IF contentDisplay[type] = "block" THEN [inited EXCEPT ![type] = TRUE] ELSE inited

\* L.map(id) throws 'Map container is already initialized.' on a container
\* that holds a map
MapThrows(inited, type) == contentDisplay[type] = "block" /\ inited[type]

initMaps ==
  IF MapThrows(mapInit, "pickup")
  THEN \* caught at line 190 before anything was assigned
       UNCHANGED <<mapInit, marker, routeSection>>
  ELSE LET afterPickup == InitOne(mapInit, "pickup")
           markerP == IF afterPickup["pickup"] /\ ~mapInit["pickup"]
                      THEN [marker EXCEPT !["pickup"] =
                              LatLng(defaultCenter.lat, defaultCenter.lng)]
                      ELSE marker
       IN  IF MapThrows(afterPickup, "delivery")
           THEN /\ mapInit' = afterPickup
                /\ marker' = markerP
                /\ UNCHANGED routeSection
           ELSE LET afterDelivery == InitOne(afterPickup, "delivery")
                IN  /\ mapInit' = afterDelivery
                    /\ marker' =
                         IF afterDelivery["delivery"] /\ ~mapInit["delivery"]
                         THEN [markerP EXCEPT !["delivery"] =
                                 LatLng(defaultCenter.lat, defaultCenter.lng)]
                         ELSE markerP
                    /\ routeSection' = checkRouteAvailability(coordsHidden)

\* click on pickupMapToggle / deliveryMapToggle
ToggleMap(type) ==
  /\ toggles < MaxToggles
  /\ toggles' = toggles + 1
  /\ IF contentDisplay[type] = "none"
     THEN /\ contentDisplay' = [contentDisplay EXCEPT ![type] = "block"]
          /\ initTimer' = [initTimer EXCEPT ![type] = TRUE]
     ELSE /\ contentDisplay' = [contentDisplay EXCEPT ![type] = "none"]
          /\ UNCHANGED initTimer
  /\ UNCHANGED <<mapInit, marker, storeVars, lookups, routeSection, vehicleType,
                 routeVars, geoVars, notification>>
  /\ UNCHANGED <<addressVars, formVars>>

\* the timer of a toggle fires: if (!pickupMap) initMaps()
InitTimerFires(type) ==
  /\ initTimer[type]
  /\ initTimer' = [initTimer EXCEPT ![type] = FALSE]
  /\ IF mapInit[type]
     THEN UNCHANGED <<mapInit, marker, routeSection>>
     ELSE initMaps
  /\ UNCHANGED <<contentDisplay, toggles, storeVars, lookups, vehicleType,
                 routeVars, geoVars, notification>>
  /\ UNCHANGED <<addressVars, formVars>>

(***************************************************************************)
(* updateLocation and the four ways a point enters it.                     *)
(***************************************************************************)
\* getAddressFromCoordinates(lat, lng) is called: a reverse lookup is in flight
getAddressFromCoordinates(lat, lng, type) ==
  lookups' = lookups \cup {[type |-> type, lat |-> lat, lng |-> lng]}

\* an updateLocation that blanks the visible link when it already holds one
updateLocationOnce(latlng, type) ==
  LET lat == toFixed6(latlng.lat)
      lng == toFixed6(latlng.lng)
  IN  /\ marker' = [marker EXCEPT ![type] = LatLng(latlng.lat, latlng.lng)]
      /\ latValue' = [latValue EXCEPT ![type] = NumText(lat)]
      /\ lngValue' = [lngValue EXCEPT ![type] = NumText(lng)]
      /\ link' = [link EXCEPT ![type] =
                    IF link[type] = Empty THEN mapLink(lat, lng) ELSE Empty]
      /\ linkHidden' = [linkHidden EXCEPT ![type] = mapLink(lat, lng)]
      /\ coordsHidden' = [coordsHidden EXCEPT ![type] = CoordsText(lat, lng)]
      /\ getAddressFromCoordinates(lat, lng, type)
      /\ routeSection' = checkRouteAvailability(coordsHidden')

\* updateLocation(latlng, type), for a role whose marker exists
updateLocation(latlng, type) ==
  LET lat == toFixed6(latlng.lat)
      lng == toFixed6(latlng.lng)
  IN  /\ marker' = [marker EXCEPT ![type] = LatLng(latlng.lat, latlng.lng)]
      /\ latValue' = [latValue EXCEPT ![type] = NumText(lat)]
      /\ lngValue' = [lngValue EXCEPT ![type] = NumText(lng)]
      /\ link' = [link EXCEPT ![type] = mapLink(lat, lng)]
      /\ linkHidden' = [linkHidden EXCEPT ![type] = mapLink(lat, lng)]
      /\ coordsHidden' = [coordsHidden EXCEPT ![type] = CoordsText(lat, lng)]
      /\ getAddressFromCoordinates(lat, lng, type)
      /\ routeSection' = checkRouteAvailability(coordsHidden')

\* onMapClick without the bounds gate
onMapClickUngated(latlng, type) ==
  /\ mapInit[type]
  /\ contentDisplay[type] = "block"
  /\ updateLocation(latlng, type)
  /\ UNCHANGED notification
  /\ UNCHANGED <<mapVars, vehicleType, routeVars, geoVars>>
  /\ UNCHANGED <<addressVars, formVars>>

\* a click on the map of a role; the map exists and its section is shown
onMapClick(latlng, type) ==
  /\ mapInit[type]
  /\ contentDisplay[type] = "block"
  /\ IF ~Contains(latlng.lat, latlng.lng)
     THEN /\ notification' = MsgClickOutside
          /\ UNCHANGED <<marker, storeVars, lookups, routeSection>>
     ELSE /\ updateLocation(latlng, type)
          /\ UNCHANGED notification
  /\ UNCHANGED <<mapVars, vehicleType, routeVars, geoVars>>
  /\ UNCHANGED <<addressVars, formVars>>

\* a drag-release that leaves the marker where it was dropped
onMarkerDragEndNoReset(latlng, type) ==
  /\ marker[type].def
  /\ contentDisplay[type] = "block"
  /\ IF ~Contains(latlng.lat, latlng.lng)
     THEN /\ notification' = MsgDragOutside
          /\ marker' = [marker EXCEPT ![type] = LatLng(latlng.lat, latlng.lng)]
          /\ UNCHANGED <<storeVars, lookups, routeSection>>
     ELSE /\ updateLocation(latlng, type)
          /\ UNCHANGED notification
  /\ UNCHANGED <<mapVars, vehicleType, routeVars, geoVars>>
  /\ UNCHANGED <<addressVars, formVars>>

\* the marker of a role was dragged to latlng and released
onMarkerDragEnd(latlng, type) ==
  /\ marker[type].def
  /\ contentDisplay[type] = "block"
  /\ IF ~Contains(latlng.lat, latlng.lng)
     THEN LET hidden == coordsHidden[type]
              back   == ParseCoords(hidden)
          IN  /\ notification' = MsgDragOutside
              /\ marker' = [marker EXCEPT ![type] =
                              IF IsSet(hidden)
                              THEN LatLng(back[1], back[2])
                              ELSE LatLng(defaultCenter.lat, defaultCenter.lng)]
              /\ UNCHANGED <<storeVars, lookups, routeSection>>
     ELSE /\ updateLocation(latlng, type)
          /\ UNCHANGED notification
  /\ UNCHANGED <<mapVars, vehicleType, routeVars, geoVars>>
  /\ UNCHANGED <<addressVars, formVars>>

\* the geocoder control of a role's map reports a search result
markgeocode(center, type) ==
  /\ mapInit[type]
  /\ contentDisplay[type] = "block"
  /\ IF ~Contains(center.lat, center.lng)
     THEN /\ notification' = MsgSearchOutside
          /\ UNCHANGED <<marker, storeVars, lookups, routeSection>>
     ELSE /\ updateLocation(center, type)
          /\ UNCHANGED notification
  /\ UNCHANGED <<mapVars, vehicleType, routeVars, geoVars>>
  /\ UNCHANGED <<addressVars, formVars>>

\* click on a locate button (a disabled button receives no click); the
\* browser may lack navigator.geolocation
getCurrentLocation(type, supported) ==
  /\ locateBtn[type] = "idle"
  /\ IF ~supported
     THEN /\ notification' = MsgGeoUnsupported
          /\ UNCHANGED geoVars
     ELSE /\ locateBtn' = [locateBtn EXCEPT ![type] = "locating"]
          /\ geoPending' = [geoPending EXCEPT ![type] = TRUE]
          /\ UNCHANGED notification
  /\ UNCHANGED <<mapVars, marker, storeVars, lookups, routeSection, vehicleType,
                 routeVars>>
  /\ UNCHANGED <<addressVars, formVars>>

\* the success callback of getCurrentPosition
geoSuccess(latlng, type) ==
  /\ geoPending[type]
  /\ geoPending' = [geoPending EXCEPT ![type] = FALSE]
  /\ IF ~Contains(latlng.lat, latlng.lng)
     THEN /\ notification' = MsgGeoOutside
          /\ locateBtn' = [locateBtn EXCEPT ![type] = "idle"]
          /\ UNCHANGED <<marker, storeVars, lookups, routeSection>>
     ELSE IF ~marker[type].def
          THEN \* pickupMarker.setLatLng throws a TypeError at line 234 / 248:
               \* nothing is written and the lines after the call do not run
               UNCHANGED <<marker, storeVars, lookups, routeSection,
                           notification, locateBtn>>
          ELSE /\ updateLocation(latlng, type)
               /\ notification' = MsgGeoFound
               /\ locateBtn' = [locateBtn EXCEPT ![type] = "idle"]
  /\ UNCHANGED <<mapVars, vehicleType, routeVars>>
  /\ UNCHANGED <<addressVars, formVars>>

\* an error callback that also drops the point of its role
geoErrorClears(code, type) ==
  /\ geoPending[type]
  /\ geoPending' = [geoPending EXCEPT ![type] = FALSE]
  /\ notification' = MsgGeoError(code)
  /\ locateBtn' = [locateBtn EXCEPT ![type] = "idle"]
  /\ coordsHidden' = [coordsHidden EXCEPT ![type] = NotSet]
  /\ routeSection' = "none"
  /\ UNCHANGED <<mapVars, marker, latValue, lngValue, link, linkHidden, lookups,
                 vehicleType, routeVars>>
  /\ UNCHANGED <<addressVars, formVars>>

\* the error callback of getCurrentPosition
geoError(code, type) ==
  /\ geoPending[type]
  /\ geoPending' = [geoPending EXCEPT ![type] = FALSE]
  /\ notification' = MsgGeoError(code)
  /\ locateBtn' = [locateBtn EXCEPT ![type] = "idle"]
  /\ UNCHANGED <<mapVars, marker, storeVars, lookups, routeSection, vehicleType,
                 routeVars>>
  /\ UNCHANGED <<addressVars, formVars>>

\* a clear that resets the fields and markers of both roles
clearLocationBoth(mapType) ==
  /\ IF ~mapInit[mapType] \/ ~marker[mapType].def
     THEN UNCHANGED <<marker, storeVars, routeSection>>
     ELSE /\ marker' = [r \in Roles |->
                          IF marker[r].def
                          THEN LatLng(defaultCenter.lat, defaultCenter.lng)
                          ELSE marker[r]]
          /\ latValue' = [r \in Roles |-> Empty]
          /\ lngValue' = [r \in Roles |-> Empty]
          /\ link' = [r \in Roles |-> Empty]
          /\ coordsHidden' = [r \in Roles |-> NotSet]
          /\ UNCHANGED linkHidden
          /\ routeSection' = checkRouteAvailability(coordsHidden')
  /\ UNCHANGED <<mapVars, lookups, vehicleType, routeVars, geoVars, notification>>
  /\ UNCHANGED <<addressVars, formVars>>

\* clearLocation(mapType); without map or marker it returns at once
clearLocation(mapType) ==
  /\ IF ~mapInit[mapType] \/ ~marker[mapType].def
     THEN UNCHANGED <<marker, storeVars, routeSection>>
     ELSE /\ marker' = [marker EXCEPT ![mapType] =
                          LatLng(defaultCenter.lat, defaultCenter.lng)]
          /\ latValue' = [latValue EXCEPT ![mapType] = Empty]
          /\ lngValue' = [lngValue EXCEPT ![mapType] = Empty]
          /\ link' = [link EXCEPT ![mapType] = Empty]
          /\ coordsHidden' = [coordsHidden EXCEPT ![mapType] = NotSet]
          /\ UNCHANGED linkHidden
          /\ routeSection' = checkRouteAvailability(coordsHidden')
  /\ UNCHANGED <<mapVars, lookups, vehicleType, routeVars, geoVars, notification>>
  /\ UNCHANGED <<addressVars, formVars>>

\* the user picks an entry of the vehicleType select
selectVehicle(v) ==
  /\ v # vehicleType
  /\ vehicleType' = v
  /\ UNCHANGED <<mapVars, marker, storeVars, lookups, routeSection, routeVars,
                 geoVars, notification>>
  /\ UNCHANGED <<addressVars, formVars>>

(***************************************************************************)
(* The location picker: toggles, the four entry paths, clearLocation.      *)
(***************************************************************************)
Toggle == \E type \in Roles : ToggleMap(type)

TimerFires == \E type \in Roles : InitTimerFires(type)

MapClick == \E type \in Roles, latlng \in Points : onMapClick(latlng, type)

MarkerDragEnd == \E type \in Roles, latlng \in Points : onMarkerDragEnd(latlng, type)

SearchResult == \E type \in Roles, center \in Points : markgeocode(center, type)

LocateClick == \E type \in Roles, supported \in BOOLEAN : getCurrentLocation(type, supported)

LocateSuccess == \E type \in Roles, latlng \in Points : geoSuccess(latlng, type)

LocateError == \E type \in Roles, code \in GeoErrorCodes : geoError(code, type)

ClearLocation == \E mapType \in Roles : clearLocation(mapType)

Next ==
  \/ Toggle
  \/ TimerFires
  \/ MapClick
  \/ MarkerDragEnd
  \/ SearchResult
  \/ LocateClick
  \/ LocateSuccess
  \/ LocateError
  \/ ClearLocation

Spec == Init /\ [][Next]_vars

(***************************************************************************)
(* Properties of the location picker.                                      *)
(***************************************************************************)
\* a point in units of 1e-7 degrees lies in the closed box of the region
InsideCountry(lat, lng) ==
  /\ UGANDA_BOUNDS.south <= lat /\ lat <= UGANDA_BOUNDS.north
  /\ UGANDA_BOUNDS.west <= lng /\ lng <= UGANDA_BOUNDS.east

\* a coordinates text holds a point inside the region
TextInside(text) == InsideCountry(text.lat * 10, text.lng * 10)

OutsideMsgs == {MsgClickOutside, MsgDragOutside, MsgSearchOutside, MsgGeoOutside}

\* a step in which an entry path handles the point latlng for the role type
EntryStep(latlng, type) ==
  \/ onMapClick(latlng, type)
  \/ onMarkerDragEnd(latlng, type)
  \/ markgeocode(latlng, type)
  \/ geoSuccess(latlng, type)

\* C1: whenever a map click, a marker drag-release, a search result or a
\* device position delivers a point outside the region, the step reports it
\* with the notification of its entry path and leaves the coordinates, the
\* link fields and the visibility of the route section of both roles as
\* they were.
C1_OutsideRejected ==
  [][\A type \in Roles, latlng \in Points :
       (~InsideCountry(latlng.lat, latlng.lng) /\ EntryStep(latlng, type))
         => /\ notification' \in OutsideMsgs
            /\ UNCHANGED <<storeVars, routeSection>>]_vars

\* both roles hold a point, the route section is offered, and the device
\* position just delivered was rejected
C1_Witness ==
  /\ notification = MsgGeoOutside
  /\ IsSet(coordsHidden["pickup"])
  /\ IsSet(coordsHidden["delivery"])
  /\ routeSection = "block"

\* C2: in every reachable state the hidden coordinates field of each role is
\* empty, 'Not set', or a pair of coordinates inside the region.
C2_StoredInside ==
  \A r \in Roles :
    \/ coordsHidden[r] = Empty
    \/ coordsHidden[r] = NotSet
    \/ coordsHidden[r].k = "coords" /\ TextInside(coordsHidden[r])

\* a point next to the corner was stored, rounded onto the corner, while the
\* other role was cleared
C2_Witness ==
  /\ coordsHidden["pickup"] = CoordsText(4900000, 29500000)
  /\ coordsHidden["delivery"] = NotSet

\* both roles hold a point and both points lie inside the region
Ready ==
  \A r \in Roles :
    coordsHidden[r].k = "coords" /\ TextInside(coordsHidden[r])

\* C10: the route section is displayed if and only if both roles hold a
\* point and both points lie inside the region; this holds after every
\* operation that sets or clears a location, and in every other state.
C10_SectionIffReady == (routeSection = "block") <=> Ready

\* both roles were set to the same point and the section is offered
C10_Witness ==
  /\ routeSection = "block"
  /\ coordsHidden["pickup"] = coordsHidden["delivery"]

(***************************************************************************)
(* calculateRoute.  An invocation that passed the precondition checks is a *)
(* record of its locals, suspended first at `await fetch` and, after a     *)
(* success status, at `await response.json()`.                             *)
(***************************************************************************)
\* what the routing provider can answer with a success status: a well-formed
\* body (distance in metres, duration in seconds), a body that lacks a part,
\* or text that is no JSON
ProviderRoutes ==
  {[distance |-> 10000, duration |-> 600], [distance |-> 2500, duration |-> 90]}

Bodies ==
  {[shape |-> "ok", distance |-> r.distance, duration |-> r.duration] :
     r \in ProviderRoutes}
  \cup {[shape |-> s, distance |-> 2500, duration |-> 90] :
     s \in {"noDistance", "noDuration"}}
  \cup {[shape |-> s, distance |-> 0, duration |-> 0] :
     s \in {"unparsable", "noFeatures", "emptyFeatures", "noSegments"}}

FetchOutcomes == {"rejected", "notOk", "ok"}

\* const rate = vehicleType === 'motorcycle' ? RATE_MOTORCYCLE : RATE_CAR
rateOf(vehicle) == IF vehicle = "motorcycle" THEN RATE_MOTORCYCLE ELSE RATE_CAR

\* distanceKm.toFixed(1), the distance in metres: tenths of a kilometre
toFixed1(metres) == RoundDiv(metres, 100)

\* Math.round(route.properties.segments[0].duration / 60)
primaryDuration(seconds) == RoundDiv(seconds, 60)

\* a primary cost that multiplies the distance without rounding it first
primaryCostUnrounded(metres, vehicle) ==
  BASE_FEE + RoundMulDiv(metres, rateOf(vehicle), 1000)

\* Math.round(BASE_FEE + Math.round(distanceKm) * rate), distanceKm = metres / 1000
primaryCost(metres, vehicle) == BASE_FEE + RoundDiv(metres, 1000) * rateOf(vehicle)

\* Math.round(straightKm * 3)
fallbackDuration(metres) == RoundMulDiv(metres, 3, 1000)

\* a fallback cost that rounds the distance to whole kilometres first
fallbackCostRounded(metres, vehicle) ==
  BASE_FEE + RoundDiv(metres, 1000) * rateOf(vehicle)

\* Math.round(BASE_FEE + straightKm * rate)
fallbackCost(metres, vehicle) == BASE_FEE + RoundMulDiv(metres, rateOf(vehicle), 1000)

\* the coordinate texts updateLocation can write for the points of the model
StoredTexts ==
  {CoordsText(toFixed6(p.lat), toFixed6(p.lng)) : p \in Points \cup {defaultCenter}}

\* calculateDistance on every pair of them, evaluated once
Distances ==
  [from \in StoredTexts, to \in StoredTexts |->
     calculateDistance(ParseCoords(from)[1], ParseCoords(from)[2],
                       ParseCoords(to)[1], ParseCoords(to)[2])]

\* calculateDistance(pickupLat, pickupLng, deliveryLat, deliveryLng) on the
\* coordinates the invocation parsed from the two hidden fields
straightKm(req) == Distances[req.pickupCoords, req.deliveryCoords]

\* the overlay state an invocation works on: the global routeLayer and the
\* layers of the two maps
Overlay(layer, layers) == [routeLayer |-> layer, layers |-> layers]

\* pickupMap.removeLayer(layer); deliveryMap.removeLayer(layer)
removeLayer(layers, layer) == [r \in Roles |-> layers[r] \ {layer}]

\* layer.addTo(pickupMap).addTo(deliveryMap)
addTo(layers, layer) == [r \in Roles |-> layers[r] \cup {layer}]

\* a replacement that leaves the previous overlay on the maps
keepPrevious(ov) == ov

\* if (routeLayer) { remove it from both maps }
clearPrevious(ov) ==
  IF ov.routeLayer # NullLayer
  THEN Overlay(ov.routeLayer, removeLayer(ov.layers, ov.routeLayer))
  ELSE ov

\* routeLayer = <new layer>.addTo(pickupMap).addTo(deliveryMap)
draw(ov, layer) == Overlay(layer, addTo(ov.layers, layer))

geoJSONLayer(req) == [id |-> req.id, kind |-> "geojson"]

polylineLayer(req) == [id |-> req.id, kind |-> "polyline"]

\* the overlay when the primary branch (lines 362-380) ends or throws:
\* L.geoJSON throws on a body without features ('Invalid GeoJSON object.'),
\* fitBounds throws on the empty bounds of an empty feature list
primaryOverlay(req, body, ov) ==
  IF body.shape = "noFeatures"
  THEN clearPrevious(ov)
  ELSE draw(clearPrevious(ov), geoJSONLayer(req))

\* the primary branch runs to its end: lines 383-389 read segments[0] without
\* throwing (a missing distance or duration reads as undefined)
primaryCompletes(body) == body.shape \in {"ok", "noDistance", "noDuration"}

\* the record of the invocation that wrote the result
Applied(req, source, body) ==
  [id |-> req.id, source |-> source, pickupCoords |-> req.pickupCoords,
   deliveryCoords |-> req.deliveryCoords, vehicleType |-> req.vehicleType,
   shape |-> body.shape, distance |-> body.distance, duration |-> body.duration]

NoBody == [shape |-> "", distance |-> 0, duration |-> 0]

\* a primary display that leaves the cost text as it was
showPrimaryKeepsCost(req, body, ov) ==
  /\ routeLayer' = ov.routeLayer
  /\ mapLayers' = ov.layers
  /\ routeDistance' =
       IF body.shape = "noDistance" THEN NaNText ELSE Text(toFixed1(body.distance))
  /\ routeDuration' =
       IF body.shape = "noDuration" THEN NaNText ELSE Text(primaryDuration(body.duration))
  /\ UNCHANGED routeCost
  /\ notification' = MsgRouteOk
  /\ applied' = Applied(req, "primary", body)

\* lines 382-396: the result of the primary branch is shown
showPrimary(req, body, ov) ==
  /\ routeLayer' = ov.routeLayer
  /\ mapLayers' = ov.layers
  /\ routeDistance' =
       IF body.shape = "noDistance" THEN NaNText ELSE Text(toFixed1(body.distance))
  /\ routeDuration' =
       IF body.shape = "noDuration" THEN NaNText ELSE Text(primaryDuration(body.duration))
  /\ routeCost' =
       IF body.shape = "noDistance" THEN NaNText
       ELSE Text(primaryCost(body.distance, req.vehicleType))
  /\ notification' = MsgRouteOk
  /\ applied' = Applied(req, "primary", body)

\* lines 402-433: the catch block, entered with the overlay as the try left it
fallback(req, ov) ==
  LET after == draw(clearPrevious(ov), polylineLayer(req))
  IN  /\ routeLayer' = after.routeLayer
      /\ mapLayers' = after.layers
      /\ routeDistance' = Text(toFixed1(straightKm(req)))
      /\ routeDuration' = Text(fallbackDuration(straightKm(req)))
      /\ routeCost' = Text(fallbackCost(straightKm(req), req.vehicleType))
      /\ notification' = MsgRouteFallback
      /\ applied' = Applied(req, "fallback", NoBody)

\* a calculateRoute that does not look at the vehicle select
calculateRouteAnyVehicle ==
  LET pickupCoords   == coordsHidden["pickup"]
      deliveryCoords == coordsHidden["delivery"]
  IN  /\ IF ~IsSet(pickupCoords) \/ ~IsSet(deliveryCoords)
         THEN /\ notification' = MsgNeedLocations
              /\ UNCHANGED <<requests, issued>>
         ELSE /\ issued < MaxRequests
              /\ issued' = issued + 1
              /\ requests' = requests \cup
                   {[id |-> issued + 1, at |-> "fetch",
                     pickupCoords |-> pickupCoords,
                     deliveryCoords |-> deliveryCoords,
                     vehicleType |-> vehicleType]}
              /\ UNCHANGED notification
      /\ UNCHANGED <<mapVars, marker, storeVars, lookups, routeSection,
                     vehicleType, mapLayers, routeLayer, routeDistance,
                     routeDuration, routeCost, applied, geoVars>>
      /\ UNCHANGED <<addressVars, formVars>>

\* click on the calculateRoute button
calculateRoute ==
  LET pickupCoords   == coordsHidden["pickup"]
      deliveryCoords == coordsHidden["delivery"]
  IN  /\ IF ~IsSet(pickupCoords) \/ ~IsSet(deliveryCoords)
         THEN /\ notification' = MsgNeedLocations
              /\ UNCHANGED <<requests, issued>>
         ELSE IF vehicleType = ""
              THEN /\ notification' = MsgNeedVehicle
                   /\ UNCHANGED <<requests, issued>>
              ELSE /\ issued < MaxRequests
                   /\ issued' = issued + 1
                   /\ requests' = requests \cup
                        {[id |-> issued + 1, at |-> "fetch",
                          pickupCoords |-> pickupCoords,
                          deliveryCoords |-> deliveryCoords,
                          vehicleType |-> vehicleType]}
                   /\ UNCHANGED notification
      /\ UNCHANGED <<mapVars, marker, storeVars, lookups, routeSection,
                     vehicleType, mapLayers, routeLayer, routeDistance,
                     routeDuration, routeCost, applied, geoVars>>
      /\ UNCHANGED <<addressVars, formVars>>

\* the fetch of an invocation settles: rejected, a non-success status, or a
\* success status, after which the invocation awaits response.json()
fetchSettles(req, outcome) ==
  /\ req \in requests
  /\ req.at = "fetch"
  /\ IF outcome = "ok"
     THEN /\ requests' = (requests \ {req}) \cup {[req EXCEPT !.at = "json"]}
          /\ UNCHANGED <<mapLayers, routeLayer, routeDistance, routeDuration,
                         routeCost, applied, notification>>
     ELSE /\ requests' = requests \ {req}
          /\ fallback(req, Overlay(routeLayer, mapLayers))
  /\ UNCHANGED <<mapVars, marker, storeVars, lookups, routeSection, vehicleType,
                 issued, geoVars>>
  /\ UNCHANGED <<addressVars, formVars>>

\* response.json() of an invocation settles with a body
jsonSettles(req, body) ==
  /\ req \in requests
  /\ req.at = "json"
  /\ requests' = requests \ {req}
  /\ IF body.shape = "unparsable"
     THEN fallback(req, Overlay(routeLayer, mapLayers))
     ELSE LET ov == primaryOverlay(req, body, Overlay(routeLayer, mapLayers))
          IN  IF primaryCompletes(body)
              THEN showPrimary(req, body, ov)
              ELSE fallback(req, ov)
  /\ UNCHANGED <<mapVars, marker, storeVars, lookups, routeSection, vehicleType,
                 issued, geoVars>>
  /\ UNCHANGED <<addressVars, formVars>>

\* click on the clearRoute button
clearRoute ==
  /\ LET after == clearPrevious(Overlay(routeLayer, mapLayers))
     IN  /\ mapLayers' = after.layers
         /\ routeLayer' = NullLayer
  /\ routeDistance' = Blank
  /\ routeDuration' = Blank
  /\ routeCost' = Blank
  /\ notification' = MsgRouteCleared
  /\ UNCHANGED <<mapVars, marker, storeVars, lookups, routeSection, vehicleType,
                 requests, issued, applied, geoVars>>
  /\ UNCHANGED <<addressVars, formVars>>

(***************************************************************************)
(* The route estimator: the picker's clicks and clears, the vehicle        *)
(* select, calculateRoute with the answers of the provider, clearRoute.    *)
(***************************************************************************)
\* the points clicked while the estimator is studied: two valid pickup points,
\* one valid delivery point (equal to the second pickup point), one point
\* outside the region
RoutePoints(type) ==
  IF type = "pickup" THEN {defaultCenter, PointB, PointNorth} ELSE {PointB, PointNorth}

RouteClick == \E type \in Roles : \E latlng \in RoutePoints(type) : onMapClick(latlng, type)

SelectVehicle == \E v \in {"", "motorcycle", "car"} : selectVehicle(v)

FetchSettles == \E req \in requests, outcome \in FetchOutcomes : fetchSettles(req, outcome)

JsonSettles == \E req \in requests, body \in Bodies : jsonSettles(req, body)

NextRoute ==
  \/ Toggle
  \/ TimerFires
  \/ RouteClick
  \/ ClearLocation
  \/ SelectVehicle
  \/ calculateRoute
  \/ FetchSettles
  \/ JsonSettles
  \/ clearRoute

SpecRoute == Init /\ [][NextRoute]_vars

(***************************************************************************)
(* The reverse lookup.  Texts that the code searches or compares are       *)
(* sequences of characters.  An invocation of getAddressFromCoordinates    *)
(* touches no shared state between its two awaits, so it settles in one    *)
(* step, followed at once by the callback updateLocation attached to it.   *)
(***************************************************************************)
UpperCase ==
  <<"A", "B", "C", "D", "E", "F", "G", "H", "I", "J", "K", "L", "M",
    "N", "O", "P", "Q", "R", "S", "T", "U", "V", "W", "X", "Y", "Z">>

LowerCase ==
  <<"a", "b", "c", "d", "e", "f", "g", "h", "i", "j", "k", "l", "m",
    "n", "o", "p", "q", "r", "s", "t", "u", "v", "w", "x", "y", "z">>

\* String.prototype.toLowerCase
toLowerCase(text) ==
  [i \in 1..Len(text) |->
     IF \E k \in 1..Len(UpperCase) : UpperCase[k] = text[i]
     THEN LowerCase[CHOOSE k \in 1..Len(UpperCase) : UpperCase[k] = text[i]]
     ELSE text[i]]

\* String.prototype.includes
includes(text, part) ==
  \E i \in 0..(Len(text) - Len(part)) :
    \A j \in 1..Len(part) : text[i + j] = part[j]

\* String.prototype.trim
RECURSIVE trim(_)
trim(text) ==
  IF text = NoChars THEN text
  ELSE IF Head(text) = " " THEN trim(Tail(text))
  ELSE IF text[Len(text)] = " " THEN trim(SubSeq(text, 1, Len(text) - 1))
  ELSE text

\* 'uganda'
TextUganda == <<"u", "g", "a", "n", "d", "a">>

\* 'enter'
TextEnter == <<"e", "n", "t", "e", "r">>

\* 'Address not found'
TextNotFound ==
  <<"A", "d", "d", "r", "e", "s", "s", " ", "n", "o", "t", " ", "f", "o", "u", "n", "d">>

\* 'Address lookup failed'
TextLookupFailed ==
  <<"A", "d", "d", "r", "e", "s", "s", " ", "l", "o", "o", "k", "u", "p", " ",
    "f", "a", "i", "l", "e", "d">>

\* what the lookup provider can answer with a success status: JSON with or
\* without an address object, a country and a display_name, or the JSON null
LookupBodies ==
  { [kind |-> "json", hasAddress |-> TRUE,
     country |-> <<"U", "g", "a", "n", "d", "a">>,
     display_name |-> <<"K", "a", "m", "p", "a", "l", "a">>],
    [kind |-> "json", hasAddress |-> TRUE,
     country |-> <<"U", "G", "A", "N", "D", "A">>,
     display_name |-> NoChars],
    [kind |-> "json", hasAddress |-> TRUE,
     country |-> <<"K", "e", "n", "y", "a">>,
     display_name |-> <<"N", "a", "i", "r", "o", "b", "i">>],
    [kind |-> "json", hasAddress |-> FALSE,
     country |-> NoChars,
     display_name |-> <<"K", "a", "m", "p", "a", "l", "a">>],
    [kind |-> "null", hasAddress |-> FALSE, country |-> NoChars,
     display_name |-> NoChars] }

\* how an invocation can go: the fetch rejects, answers with a non-success
\* status, answers with text that is no JSON, or answers with a body
LookupOutcomes ==
  {[kind |-> k, hasAddress |-> FALSE, country |-> NoChars, display_name |-> NoChars] :
     k \in {"rejected", "notOk", "unparsable"}}
  \cup LookupBodies

\* a value of getAddressFromCoordinates that names a country for a failure
addressOfFailureUganda(outcome) ==
  [display_name |-> TextLookupFailed, country |-> TextUganda]

\* the value the promise of getAddressFromCoordinates resolves to: a thrown
\* error (a rejected fetch, unparsable text, data.address of null) is caught
\* at line 296 and, like a non-success status, ends at line 300
addressOf(outcome) ==
  IF outcome.kind = "json"
  THEN [display_name |->
          IF outcome.display_name # NoChars THEN outcome.display_name
          ELSE TextNotFound,
        country |->
          IF outcome.hasAddress /\ outcome.country # NoChars THEN outcome.country
          ELSE NoChars]
  ELSE [display_name |-> TextLookupFailed, country |-> NoChars]

MsgNotUganda == "Selected location is not in Uganda (reverse lookup)."

\* a callback that withdraws the point when the country does not match
lookupCallbackRetracts(addr, type) ==
  IF addr.country # NoChars /\ includes(toLowerCase(addr.country), TextUganda)
  THEN /\ address' = [address EXCEPT ![type] = addr.display_name]
       /\ UNCHANGED <<notification, coordsHidden, routeSection>>
  ELSE /\ notification' = MsgNotUganda
       /\ coordsHidden' = [coordsHidden EXCEPT ![type] = NotSet]
       /\ routeSection' = "none"
       /\ UNCHANGED address

\* the callback of lines 263-275 with the resolved value addr
lookupCallback(addr, type) ==
  IF addr.country # NoChars /\ includes(toLowerCase(addr.country), TextUganda)
  THEN LET current == address[type]
       IN  /\ address' =
                IF \/ current = NoChars
                   \/ includes(toLowerCase(current), TextEnter)
                   \/ trim(current) = NoChars
                THEN [address EXCEPT ![type] = addr.display_name]
                ELSE address
           /\ UNCHANGED <<notification, coordsHidden, routeSection>>
  ELSE /\ notification' = MsgNotUganda
       /\ UNCHANGED <<address, coordsHidden, routeSection>>

\* the reverse lookup lk settles with outcome and its callback runs
lookupSettles(lk, outcome) ==
  /\ lk \in lookups
  /\ lookups' = lookups \ {lk}
  /\ LET addr == addressOf(outcome)
     IN  /\ resolved' =
              [type |-> lk.type, lat |-> lk.lat, lng |-> lk.lng,
               display_name |-> addr.display_name, country |-> addr.country]
         /\ lookupCallback(addr, lk.type)
  /\ UNCHANGED <<mapVars, marker, latValue, lngValue, link, linkHidden,
                 vehicleType, routeVars, geoVars, formVars>>

LookupSettles == \E lk \in lookups, outcome \in LookupOutcomes : lookupSettles(lk, outcome)

\* the points clicked while the lookups are studied: two valid pickup
\* points and one outside the region, one valid delivery point
LookupPoints(type) ==
  IF type = "pickup" THEN {PointB, PointEdge, PointNorth} ELSE {PointB}

LookupClick == \E type \in Roles : \E latlng \in LookupPoints(type) : onMapClick(latlng, type)

\* the picker with its reverse lookups: toggles, clicks, clears and the
\* answers of the lookup provider
NextLookup ==
  \/ Toggle
  \/ TimerFires
  \/ LookupClick
  \/ ClearLocation
  \/ LookupSettles

SpecLookup == Init /\ [][NextLookup]_vars

\* C15: a click on a locate button and the error callback of its request
\* (permission denied, position unavailable, timeout, unknown) leave the
\* stored fields and marker of both roles, the visibility of the route
\* section and the route result as they were; the error callback reports
\* the error with the text of its code.
C15_GeoErrorKeepsState ==
  [][/\ \A type \in Roles, code \in GeoErrorCodes :
          geoError(code, type) =>
            /\ notification' = "Unable to get your current location. " \o code
            /\ UNCHANGED <<storeVars, marker, routeSection, routeVars>>
     /\ \A type \in Roles, supported \in BOOLEAN :
          getCurrentLocation(type, supported) =>
            UNCHANGED <<storeVars, marker, routeSection, routeVars>>]_vars

\* both roles hold a point, the section is offered, and a request for the
\* device position has just timed out
C15_Witness ==
  /\ notification = "Unable to get your current location. Location request timed out."
  /\ IsSet(coordsHidden["pickup"])
  /\ IsSet(coordsHidden["delivery"])
  /\ routeSection = "block"
  /\ \A r \in Roles : ~geoPending[r]

\* C16: a locate button shows 'Locating...' and is disabled only while the
\* callback of its request is outstanding: once the callback has fired, for a
\* position inside or outside the region or for an error, and whether or
\* not the map of the role exists, the button is enabled again.
C16_ButtonRestored ==
  \A r \in Roles : locateBtn[r] = "locating" => geoPending[r]

C13_FailureSwallowed ==
  [][\A lk \in lookups, outcome \in LookupOutcomes :
       (lookupSettles(lk, outcome) /\ outcome.kind # "json") =>
         /\ resolved'.display_name = TextLookupFailed
         /\ resolved'.country = NoChars
         /\ UNCHANGED <<storeVars, marker, routeSection, routeVars, address>>]_vars

\* the lookup of the delivery point failed while both roles hold a point
C13_Witness ==
  /\ resolved.display_name = TextLookupFailed
  /\ resolved.type = "delivery"
  /\ coordsHidden["delivery"] = CoordsText(resolved.lat, resolved.lng)
  /\ IsSet(coordsHidden["pickup"])
  /\ routeSection = "block"

\* C14: a click that sets a role to the point it already holds leaves the
\* coordinates and links of both roles and the visibility of the route
\* section exactly as the first set left them.
C14_SetTwice ==
  [][\A type \in Roles, latlng \in Points :
       ( /\ InsideCountry(latlng.lat, latlng.lng)
         /\ coordsHidden[type] = CoordsText(toFixed6(latlng.lat), toFixed6(latlng.lng))
         /\ onMapClick(latlng, type) )
       => UNCHANGED <<storeVars, routeSection>>]_vars

\* the lookup of the first set of the pickup point has resolved and filled
\* the address, and the lookup of a second set of the same point is pending
C14_Witness ==
  /\ resolved.type = "pickup"
  /\ coordsHidden["pickup"] = CoordsText(resolved.lat, resolved.lng)
  /\ address["pickup"] = resolved.display_name
  /\ lookups = {[type |-> "pickup", lat |-> resolved.lat, lng |-> resolved.lng]}
  /\ routeSection = "block"

\* C20: while a role is cleared, none of its fields holds data of the
\* cleared point: latitude, longitude, visible link, hidden link and address
\* are empty, also after a lookup started before the clear has resolved.
C20_ClearedEntryAbsent ==
  \A r \in Roles :
    coordsHidden[r] = NotSet =>
      /\ latValue[r] = Empty
      /\ lngValue[r] = Empty
      /\ link[r] = Empty
      /\ linkHidden[r] = Empty
      /\ address[r] = NoChars

(***************************************************************************)
(* Properties of the route estimator.                                      *)
(***************************************************************************)
\* the rate per kilometre of a vehicle class
RatePerKm(vehicle) == IF vehicle = "motorcycle" THEN 1500 ELSE 4000

\* the three texts of the route display hold numbers
DisplayComplete ==
  /\ routeDistance.k = "num"
  /\ routeDuration.k = "num"
  /\ routeCost.k = "num"

\* the route display is blank
DisplayBlank ==
  /\ routeDistance = Blank
  /\ routeDuration = Blank
  /\ routeCost = Blank

\* C3: every invocation of calculateRoute that passed its precondition
\* checks and whose provider call settled has announced a result, and the
\* result it announced is complete: a numeric distance, duration and cost
\* and a geometry on both maps.
C3_Total ==
  notification \in {MsgRouteOk, MsgRouteFallback} =>
    /\ DisplayComplete
    /\ routeLayer # NullLayer
    /\ \A r \in Roles : routeLayer \in mapLayers[r]

\* C4: a result tagged primary is never built from a malformed body: a body
\* that lacks features, segments, the distance or the duration, like a
\* rejected request and a non-success status, ends in the fallback branch.
C4_MalformedFallsBack == applied.source = "primary" => applied.shape = "ok"

\* C5: while the result of a fallback is displayed, the distance is the
\* haversine distance between the pickup and the delivery point of the
\* invocation, the duration is round(distance * 3), the cost is
\* round(3000 + distance * rate) with the distance unrounded (rate 1500 for
\* a motorcycle, 4000 for a car), and the overlay is the two-point line of
\* that invocation; equal points give 0.0 km, 0 min and the base fee.
C5_FallbackFormulas ==
  (applied.source = "fallback" /\ routeDistance # Blank) =>
    LET p == ParseCoords(applied.pickupCoords)
        d == ParseCoords(applied.deliveryCoords)
        metres == calculateDistance(p[1], p[2], d[1], d[2])
    IN  /\ routeDistance = Text(RoundDiv(metres, 100))
        /\ routeDuration = Text(RoundMulDiv(metres, 3, 1000))
        /\ routeCost =
             Text(3000 + RoundMulDiv(metres, RatePerKm(applied.vehicleType), 1000))
        /\ routeLayer = [id |-> applied.id, kind |-> "polyline"]
        /\ applied.pickupCoords = applied.deliveryCoords =>
             /\ routeDistance = Text(0)
             /\ routeDuration = Text(0)
             /\ routeCost = Text(3000)

\* a fallback for two points about two kilometres apart, by car: 2.0 km,
\* 6 min, and a cost that is not 3000 + 2 * 4000
C5_Witness ==
  /\ applied.source = "fallback"
  /\ applied.vehicleType = "car"
  /\ routeDistance = Text(20)
  /\ routeDuration = Text(6)
  /\ routeCost # Text(11000)
  /\ routeLayer.kind = "polyline"

\* for a whole number of kilometres both cost formulas give 3000 + km * rate
WholeKmAgree ==
  \A km \in {0, 1, 2, 10, 25}, v \in {"motorcycle", "car"} :
    /\ primaryCost(km * 1000, v) = 3000 + km * RatePerKm(v)
    /\ fallbackCost(km * 1000, v) = 3000 + km * RatePerKm(v)

\* C6: while the result of a primary branch on a well-formed body is
\* displayed, the distance is metres / 1000, the duration is
\* round(seconds / 60) and the cost is round(3000 + round(km) * rate) with
\* rate 1500 for a motorcycle and 4000 for a car; 10 km cost 18000 by
\* motorcycle and 43000 by car, and for whole kilometres the primary and
\* the fallback formula agree.
C6_PrimaryFormulas ==
  /\ WholeKmAgree
  /\ (applied.source = "primary" /\ applied.shape = "ok" /\ routeDistance # Blank) =>
       /\ routeDistance = Text((2 * applied.distance + 100) \div 200)
       /\ routeDuration = Text((2 * applied.duration + 60) \div 120)
       /\ routeCost =
            Text(3000 + ((2 * applied.distance + 1000) \div 2000)
                          * RatePerKm(applied.vehicleType))
       /\ applied.distance = 10000 =>
            routeCost = Text(IF applied.vehicleType = "motorcycle" THEN 18000 ELSE 43000)

\* a primary result for 2.5 km and 90 s by motorcycle: 2.5 km, 2 min, 7500
C6_Witness ==
  /\ applied.source = "primary"
  /\ applied.distance = 2500
  /\ applied.vehicleType = "motorcycle"
  /\ routeDistance = Text(25)
  /\ routeDuration = Text(2)
  /\ routeCost = Text(7500)

\* C7: once no computation is in flight, the result applied last is the one
\* of the most recently issued invocation, whatever the order in which the
\* provider calls settled.
C7_NewestWins == (requests = {} /\ issued > 0) => applied.id = issued

\* C8: each map holds at most one route overlay, and the overlay it holds
\* is the one routeLayer refers to; with routeLayer null the maps hold none.
C8_OneOverlay ==
  \A r \in Roles :
    /\ Cardinality(mapLayers[r]) <= 1
    /\ mapLayers[r] \subseteq {routeLayer}
    /\ NullLayer \notin mapLayers[r]

\* two computations overlapped, the older one settled last and drew its
\* line in place of the newer one's overlay
C8_Witness ==
  /\ issued = 2
  /\ requests = {}
  /\ routeLayer = [id |-> 1, kind |-> "polyline"]
  /\ \A r \in Roles : mapLayers[r] = {routeLayer}

\* C9: while a role is cleared the route section is not offered, the route
\* display is blank and no overlay remains, also when a computation that
\* started before the clear completes after it.
C9_ClearInvalidates ==
  (\E r \in Roles : coordsHidden[r] = NotSet) =>
    /\ routeSection = "none"
    /\ DisplayBlank
    /\ routeLayer = NullLayer
    /\ \A r \in Roles : mapLayers[r] = {}

\* the three texts and the overlay that the invocation recorded in a wrote
\* in its branch
ResultOf(a) ==
  IF a.source = "fallback"
  THEN LET metres == Distances[a.pickupCoords, a.deliveryCoords]
       IN  [distance |-> Text(RoundDiv(metres, 100)),
            duration |-> Text(RoundMulDiv(metres, 3, 1000)),
            cost |-> Text(3000 + RoundMulDiv(metres, RatePerKm(a.vehicleType), 1000)),
            overlay |-> [id |-> a.id, kind |-> "polyline"]]
  ELSE [distance |->
          IF a.shape = "noDistance" THEN NaNText ELSE Text(RoundDiv(a.distance, 100)),
        duration |->
          IF a.shape = "noDuration" THEN NaNText ELSE Text(RoundDiv(a.duration, 60)),
        cost |->
          IF a.shape = "noDistance" THEN NaNText
          ELSE Text(3000 + RoundDiv(a.distance, 1000) * RatePerKm(a.vehicleType)),
        overlay |-> [id |-> a.id, kind |-> "geojson"]]

\* C19: in every state between two events the route display and the
\* overlay are either all blank, or the distance, the duration, the cost
\* and the overlay are those one invocation wrote in one branch; an overlay
\* drawn by a primary branch that failed afterwards is never left with the
\* texts of another result.
C19_Wholesale ==
  \/ DisplayBlank /\ routeLayer = NullLayer
  \/ /\ applied.source \in {"primary", "fallback"}
     /\ routeDistance = ResultOf(applied).distance
     /\ routeDuration = ResultOf(applied).duration
     /\ routeCost = ResultOf(applied).cost
     /\ routeLayer = ResultOf(applied).overlay

\* the second of two invocations ended in the fallback after a primary
\* result of the first was shown
C19_Witness ==
  /\ issued = 2
  /\ requests = {}
  /\ applied.source = "fallback"
  /\ applied.id = 2
  /\ routeLayer = [id |-> 2, kind |-> "polyline"]
  /\ routeDistance = ResultOf(applied).distance
  /\ notification = MsgRouteFallback

\* C11: a click on calculateRoute while a role holds no valid point or no
\* vehicle is selected only reports it: no request to the routing provider
\* is issued, and the overlay and the displayed distance, duration and cost
\* stay as they were.
C11_PreconditionReported ==
  [][(calculateRoute /\ (~Ready \/ vehicleType = ""))
       => /\ notification' = IF ~Ready THEN MsgNeedLocations ELSE MsgNeedVehicle
          /\ UNCHANGED <<requests, issued, routeLayer, mapLayers, routeDistance,
                         routeDuration, routeCost, applied>>]_vars

\* a route is shown, the vehicle was deselected and calculateRoute was
\* clicked again
C11_Witness ==
  /\ notification = MsgNeedVehicle
  /\ Ready
  /\ routeLayer # NullLayer
  /\ ~DisplayBlank

(***************************************************************************)
(* The delivery form: the submit handler up to its await, the POST         *)
(* settling, and the WhatsApp button.  The browser delivers a submit event *)
(* only from a form that is displayed and whose submit button is enabled.  *)
(* The texts typed into the form enter the handler as the results of its   *)
(* checks on them.                                                         *)
(***************************************************************************)
MsgRequired == "Please complete all required fields including landmarks"
MsgSenderPhone == "Sender phone must be a valid Ugandan number (e.g. +2567...)"
MsgRecipientPhone == "Recipient phone must be a valid Ugandan number (e.g. +2567...)"
MsgTerms == "Please agree to the terms of service and privacy policy"

\* what the handler finds in the typed fields: the required text fields are
\* filled, ugPhoneValid of the two phones, the terms box is checked
FormFields ==
  [required : BOOLEAN, senderPhone : BOOLEAN, recipientPhone : BOOLEAN,
   terms : BOOLEAN]

\* the text 'No location set'
NoLocation == [k |-> "nolocation", lat |-> 0, lng |-> 0]

\* lines 614-644: the object assigned to currentFormData
snapshot ==
  [set |-> TRUE,
   pickupAddress |-> address["pickup"],
   pickupCoords |->
     IF coordsHidden["pickup"] = Empty THEN NotSet ELSE coordsHidden["pickup"],
   pickupLink |-> IF link["pickup"] = Empty THEN NoLocation ELSE link["pickup"],
   deliveryAddress |-> address["delivery"],
   deliveryCoords |->
     IF coordsHidden["delivery"] = Empty THEN NotSet ELSE coordsHidden["delivery"],
   deliveryLink |-> IF link["delivery"] = Empty THEN NoLocation ELSE link["delivery"],
   vehicleType |-> vehicleType,
   routeDistance |-> routeDistance,
   routeDuration |-> routeDuration,
   routeCost |-> routeCost]

\* the submit event of deliveryForm, up to `await fetch`
submit(fields) ==
  /\ formDisplay = "block"
  /\ submitBtn = "enabled"
  /\ IF ~fields.required \/ vehicleType = ""
     THEN /\ notification' = MsgRequired
          /\ UNCHANGED formVars
     ELSE IF ~fields.senderPhone
     THEN /\ notification' = MsgSenderPhone
          /\ UNCHANGED formVars
     ELSE IF ~fields.recipientPhone
     THEN /\ notification' = MsgRecipientPhone
          /\ UNCHANGED formVars
     ELSE IF ~fields.terms
     THEN /\ notification' = MsgTerms
          /\ UNCHANGED formVars
     ELSE /\ submitBtn' = "loading"
          /\ currentFormData' = snapshot
          /\ postPending' = TRUE
          /\ UNCHANGED <<notification, formDisplay, successDisplay, whatsapp>>
  /\ UNCHANGED <<mapVars, marker, storeVars, lookups, routeSection, vehicleType,
                 routeVars, geoVars, addressVars>>

PostOutcomes == {"ok", "notOk", "rejected"}

\* a POST after which a refused submission leaves the form on the page
postSettlesStrict(outcome) ==
  /\ postPending
  /\ postPending' = FALSE
  /\ IF outcome = "ok"
     THEN formDisplay' = "none" /\ successDisplay' = "block"
     ELSE UNCHANGED <<formDisplay, successDisplay>>
  /\ submitBtn' = "enabled"
  /\ UNCHANGED <<currentFormData, whatsapp>>
  /\ UNCHANGED <<mapVars, marker, storeVars, lookups, routeSection, vehicleType,
                 routeVars, geoVars, notification, addressVars>>

\* the POST settles: lines 667-683, the try, the catch and the finally
postSettles(outcome) ==
  /\ postPending
  /\ postPending' = FALSE
  /\ formDisplay' = "none"
  /\ successDisplay' = "block"
  /\ submitBtn' = "enabled"
  /\ UNCHANGED <<currentFormData, whatsapp>>
  /\ UNCHANGED <<mapVars, marker, storeVars, lookups, routeSection, vehicleType,
                 routeVars, geoVars, notification, addressVars>>

\* generateWhatsAppMessage(formData): the values interpolated into the text
generateWhatsAppMessage(formData) ==
  [pickupAddress |-> formData.pickupAddress,
   pickupCoords |-> formData.pickupCoords,
   pickupLink |-> formData.pickupLink,
   deliveryAddress |-> formData.deliveryAddress,
   deliveryCoords |-> formData.deliveryCoords,
   deliveryLink |-> formData.deliveryLink,
   routeDistance |-> formData.routeDistance,
   routeDuration |-> formData.routeDuration,
   routeCost |-> formData.routeCost,
   vehicle |-> IF formData.vehicleType = "motorcycle" THEN "Motorcycle" ELSE "Car"]

\* a handler that builds the message from the fields as they are now
whatsappFromFields ==
  /\ IF currentFormData = NullData
     THEN UNCHANGED whatsapp
     ELSE whatsapp' = [open |-> TRUE, message |-> generateWhatsAppMessage(snapshot)]
  /\ UNCHANGED <<formDisplay, successDisplay, submitBtn, currentFormData, postPending>>
  /\ UNCHANGED <<mapVars, marker, storeVars, lookups, routeSection, vehicleType,
                 routeVars, geoVars, notification, addressVars>>

\* click on whatsappBtn
whatsappClick ==
  /\ IF currentFormData = NullData
     THEN UNCHANGED whatsapp
     ELSE whatsapp' =
            [open |-> TRUE, message |-> generateWhatsAppMessage(currentFormData)]
  /\ UNCHANGED <<formDisplay, successDisplay, submitBtn, currentFormData, postPending>>
  /\ UNCHANGED <<mapVars, marker, storeVars, lookups, routeSection, vehicleType,
                 routeVars, geoVars, notification, addressVars>>

\* the points clicked while the form is studied: one valid point per role
FormPoints(type) == IF type = "pickup" THEN {PointB} ELSE {PointEdge}

FormClick == \E type \in Roles : \E latlng \in FormPoints(type) : onMapClick(latlng, type)

FormVehicle == \E v \in {"", "motorcycle"} : selectVehicle(v)

\* the fetch of a route request fails and the fallback result is shown
FormFetchFails == \E req \in requests : fetchSettles(req, "rejected")

Submit == \E fields \in FormFields : submit(fields)

PostSettles == \E outcome \in PostOutcomes : postSettles(outcome)

NextForm ==
  \/ Toggle
  \/ TimerFires
  \/ FormClick
  \/ ClearLocation
  \/ FormVehicle
  \/ calculateRoute
  \/ FormFetchFails
  \/ Submit
  \/ PostSettles
  \/ whatsappClick

\* the POST of a submission settles (the provider answers or the request
\* fails)
SpecForm == Init /\ [][NextForm]_vars /\ WF_vars(PostSettles)

(***************************************************************************)
(* Properties of the delivery form.                                        *)
(***************************************************************************)
\* the completion state: form hidden, success message shown, button restored
Completed ==
  /\ formDisplay = "none"
  /\ successDisplay = "block"
  /\ submitBtn = "enabled"

\* C17: a submission that passed validation always reaches the completion
\* state: however its POST settles (success, non-success status, rejection)
\* the form is hidden, the success message is shown and the submit button is
\* enabled again, and a pending POST leads to that state.
C17_FireAndForget ==
  /\ [][\A outcome \in PostOutcomes : postSettles(outcome) => Completed']_vars
  /\ []((currentFormData # NullData /\ ~postPending) => Completed)
  /\ (postPending ~> Completed)

\* a submission was made and its POST has settled
C17_Witness ==
  /\ currentFormData # NullData
  /\ ~postPending
  /\ Completed

\* C18: currentFormData is assigned the values the fields hold when the
\* submission is made, and no later click, clear, route request or route
\* result changes it; a window opened by the WhatsApp button carries the
\* message built from that object, and none is opened before a submission.
C18_Snapshot ==
  [][/\ currentFormData # NullData => currentFormData' = currentFormData
     /\ (currentFormData = NullData /\ currentFormData' # NullData) =>
          /\ currentFormData'.pickupCoords =
               (IF coordsHidden["pickup"] = Empty THEN NotSet ELSE coordsHidden["pickup"])
          /\ currentFormData'.deliveryCoords =
               (IF coordsHidden["delivery"] = Empty THEN NotSet
                ELSE coordsHidden["delivery"])
          /\ currentFormData'.vehicleType = vehicleType
          /\ currentFormData'.routeDistance = routeDistance
          /\ currentFormData'.routeDuration = routeDuration
          /\ currentFormData'.routeCost = routeCost
     /\ whatsapp' # whatsapp =>
          /\ currentFormData # NullData
          /\ whatsapp'.message.pickupCoords = currentFormData.pickupCoords
          /\ whatsapp'.message.deliveryCoords = currentFormData.deliveryCoords
          /\ whatsapp'.message.routeDistance = currentFormData.routeDistance
          /\ whatsapp'.message.routeDuration = currentFormData.routeDuration
          /\ whatsapp'.message.routeCost = currentFormData.routeCost
     /\ currentFormData = NullData => whatsapp = NoWindow]_vars

\* after the submission the pickup point was cleared and a route result
\* arrived; the WhatsApp window shows the submitted values
C18_Witness ==
  /\ currentFormData # NullData
  /\ IsSet(currentFormData.pickupCoords)
  /\ coordsHidden["pickup"] = NotSet
  /\ currentFormData.routeDistance = Blank
  /\ routeDistance # Blank
  /\ whatsapp # NoWindow
  /\ whatsapp.message.pickupCoords = currentFormData.pickupCoords
  /\ whatsapp.message.routeDistance = Blank

(***************************************************************************)
(* The boundary check on its own.  Clicks on the pickup map are drawn from *)
(* points on each edge of the region, one step of 1e-7 degrees inside and  *)
(* outside each edge, the four corners and the default centre.             *)
(***************************************************************************)
BoundsLats ==
  {UGANDA_BOUNDS.south - 1, UGANDA_BOUNDS.south, UGANDA_BOUNDS.south + 1,
   UGANDA_BOUNDS.north - 1, UGANDA_BOUNDS.north, UGANDA_BOUNDS.north + 1}

BoundsLngs ==
  {UGANDA_BOUNDS.west - 1, UGANDA_BOUNDS.west, UGANDA_BOUNDS.west + 1,
   UGANDA_BOUNDS.east - 1, UGANDA_BOUNDS.east, UGANDA_BOUNDS.east + 1}

BoundsPoints ==
  {[lat |-> lat, lng |-> defaultCenter.lng] : lat \in BoundsLats}
  \cup {[lat |-> defaultCenter.lat, lng |-> lng] : lng \in BoundsLngs}
  \cup {[lat |-> lat, lng |-> lng] :
          lat \in {UGANDA_BOUNDS.south, UGANDA_BOUNDS.north},
          lng \in {UGANDA_BOUNDS.west, UGANDA_BOUNDS.east}}
  \cup {defaultCenter}

BoundsClick == \E latlng \in BoundsPoints : onMapClick(latlng, "pickup")

NextBounds ==
  \/ Toggle
  \/ TimerFires
  \/ BoundsClick

SpecBounds == Init /\ [][NextBounds]_vars

\* C21: a click is accepted (the marker moves to the clicked point and its
\* rounded coordinates are stored) exactly when the point lies in the closed
\* box south -1.5, west 29.5, north 4.9, east 35.1; a point on an edge is
\* accepted, and a point beyond one edge is rejected with the notification
\* of the click path while marker and stored coordinates stay as they were.
C21_ClosedBox ==
  [][\A latlng \in BoundsPoints :
       onMapClick(latlng, "pickup")
         => IF /\ -15000000 <= latlng.lat /\ latlng.lat <= 49000000
               /\ 295000000 <= latlng.lng /\ latlng.lng <= 351000000
            THEN /\ marker'["pickup"] = LatLng(latlng.lat, latlng.lng)
                 /\ coordsHidden'["pickup"] =
                      CoordsText(toFixed6(latlng.lat), toFixed6(latlng.lng))
                 /\ notification' = notification
            ELSE /\ notification' = MsgClickOutside
                 /\ UNCHANGED <<marker, storeVars>>]_vars

\* the north-east corner was accepted after a click elsewhere was rejected
C21_Witness ==
  /\ marker["pickup"] = LatLng(49000000, 351000000)
  /\ coordsHidden["pickup"] = CoordsText(4900000, 35100000)
  /\ notification = MsgClickOutside

\* C22: calculateDistance gives the same distance for a pair of points in
\* either order and zero for a point and itself, on every pair of stored
\* points; and the distance a fallback displays for pickup and delivery is
\* the one the function gives for delivery and pickup, whenever and however
\* often it is computed.
C22_DistanceSymmetric ==
  /\ \A from \in StoredTexts, to \in StoredTexts :
       /\ Distances[from, to] = Distances[to, from]
       /\ from = to => Distances[from, to] = 0
  /\ (applied.source = "fallback" /\ routeDistance # Blank) =>
       LET p == ParseCoords(applied.pickupCoords)
           d == ParseCoords(applied.deliveryCoords)
       IN  routeDistance =
             Text(RoundDiv(calculateDistance(d[1], d[2], p[1], p[2]), 100))

\* a fallback displays a distance between two different points
C22_Witness ==
  /\ applied.source = "fallback"
  /\ applied.pickupCoords # applied.deliveryCoords
  /\ routeDistance # Blank
  /\ routeDistance # Text(0)
  /\ Distances[applied.deliveryCoords, applied.pickupCoords] > 0

\* C23: once the timer of a toggle has run, the section that was opened has
\* its map and its marker, whichever section was opened first: a section
\* that is shown and has no timer pending is initialised.
C23_OpenedSectionInitialised ==
  \A type \in Roles :
    (contentDisplay[type] = "block" /\ ~initTimer[type])
      => mapInit[type] /\ marker[type].def

\* C24: after every handler the marker of a role, once it exists, stands on
\* that role's stored point (the position whose six-decimal rounding is the
\* stored text) when a point is stored, and on the default centre
\* (0.3476, 32.5825) when none is; this includes the marker that was dragged
\* outside the region and the marker of a cleared role.
C24_MarkerAtStoredPoint ==
  \A type \in Roles :
    marker[type].def =>
      IF IsSet(coordsHidden[type])
      THEN /\ toFixed6(marker[type].lat) = coordsHidden[type].lat
           /\ toFixed6(marker[type].lng) = coordsHidden[type].lng
      ELSE /\ marker[type].lat = 3476000
           /\ marker[type].lng = 325825000

\* the pickup marker was dragged outside and put back on the stored point,
\* which is the rounding of the position it had been dropped on before
C24_Witness ==
  /\ notification = MsgDragOutside
  /\ coordsHidden["pickup"] = CoordsText(350000, 32600000)
  /\ marker["pickup"] = LatLng(3500000, 326000000)

(***************************************************************************)
(* The address field of a role is an input the user types into, and the    *)
(* field the lookup callback reads and fills.  The specification below     *)
(* lets the user type, lets pickup clicks start lookups and lets the       *)
(* lookups resolve in any order.                                           *)
(***************************************************************************)
\* what the user types: 'Plot 5' and 'City Center'
UserTexts ==
  {<<"P", "l", "o", "t", " ", "5">>,
   <<"C", "i", "t", "y", " ", "C", "e", "n", "t", "e", "r">>}

\* the user edits pickupAddress / deliveryAddress, the field read at line 266
typeAddress(type, text) ==
  /\ address' = [address EXCEPT ![type] = text]
  /\ UNCHANGED <<mapVars, marker, storeVars, lookups, routeSection, vehicleType,
                 routeVars, geoVars, notification, resolved, formVars>>

\* lookup answers for places in Uganda, named 'Kampala' and 'Health Center',
\* and a fetch that fails
AddressOutcomes ==
  { [kind |-> "json", hasAddress |-> TRUE,
     country |-> <<"U", "g", "a", "n", "d", "a">>,
     display_name |-> <<"K", "a", "m", "p", "a", "l", "a">>],
    [kind |-> "json", hasAddress |-> TRUE,
     country |-> <<"U", "g", "a", "n", "d", "a">>,
     display_name |-> <<"H", "e", "a", "l", "t", "h", " ", "C", "e", "n", "t", "e", "r">>],
    [kind |-> "rejected", hasAddress |-> FALSE, country |-> NoChars,
     display_name |-> NoChars] }

TypeAddress == \E type \in Roles, text \in UserTexts : typeAddress(type, text)

AddressClick == \E latlng \in {PointB, PointEdge} : onMapClick(latlng, "pickup")

AddressSettles ==
  \E lk \in lookups, outcome \in AddressOutcomes : lookupSettles(lk, outcome)

NextAddress ==
  \/ Toggle
  \/ TimerFires
  \/ AddressClick
  \/ TypeAddress
  \/ AddressSettles

SpecAddress == Init /\ [][NextAddress]_vars

\* C25: a lookup that resolves never replaces an address the user typed:
\* when the field of the lookup's role holds a text the user entered, the
\* step in which the lookup settles leaves the field as it is.
C25_UserAddressKept ==
  [][\A lk \in lookups, outcome \in AddressOutcomes :
       (lookupSettles(lk, outcome) /\ address[lk.type] \in UserTexts)
         => address'[lk.type] = address[lk.type]]_vars

\* C26: a step that sets a role (a click, a drag-release, a search result
\* or a device position for that role) or clears it leaves the other role's
\* latitude and longitude fields, its two link fields, its hidden
\* coordinates and its marker as they were.
C26_OtherRoleUntouched ==
  [][\A type \in Roles, other \in Roles :
       (/\ other # type
        /\ \/ \E latlng \in Points : EntryStep(latlng, type)
           \/ clearLocation(type))
         => /\ latValue'[other] = latValue[other]
            /\ lngValue'[other] = lngValue[other]
            /\ link'[other] = link[other]
            /\ linkHidden'[other] = linkHidden[other]
            /\ coordsHidden'[other] = coordsHidden[other]
            /\ marker'[other] = marker[other]]_vars

\* pickup was set and then cleared while delivery keeps its point, its
\* link and its marker
C26_Witness ==
  /\ coordsHidden["pickup"] = NotSet
  /\ linkHidden["pickup"] # Empty
  /\ IsSet(coordsHidden["delivery"])
  /\ link["delivery"] # Empty
  /\ latValue["delivery"] # Empty
  /\ toFixed6(marker["delivery"].lat) = coordsHidden["delivery"].lat
  /\ marker["pickup"] = LatLng(defaultCenter.lat, defaultCenter.lng)

\* C27: whenever a route result is displayed while both roles hold a point,
\* the invocation that wrote it had read the pickup and delivery points
\* that are stored now; a result for an earlier point of a role is no
\* longer shown once the role holds a different point.
C27_ResultOfStoredPoints ==
  (/\ ~DisplayBlank \/ routeLayer # NullLayer
   /\ applied.source # "none"
   /\ IsSet(coordsHidden["pickup"])
   /\ IsSet(coordsHidden["delivery"]))
    => /\ applied.pickupCoords = coordsHidden["pickup"]
       /\ applied.deliveryCoords = coordsHidden["delivery"]

\* C28: after clearRoute the route stays cleared until calculateRoute is
\* invoked again.  In a state where the display is blank, no overlay is
\* held and the invocation issued last has already written its result, the
\* route was cleared after every invocation was issued; a step from there
\* that issues no invocation leaves the display blank and the overlay
\* absent, also when an earlier invocation settles in that step.
C28_StaysCleared ==
  [][(/\ DisplayBlank
      /\ routeLayer = NullLayer
      /\ issued > 0
      /\ applied.id = issued
      /\ issued' = issued)
       => /\ routeDistance' = Blank
          /\ routeDuration' = Blank
          /\ routeCost' = Blank
          /\ routeLayer' = NullLayer
          /\ \A r \in Roles : mapLayers'[r] = {}]_vars

====
